---- MODULE Spec2Model ----
(***************************************************************************)
(* The in-memory client registry of src/main.go: the package-level map     *)
(* `clients`, the mutex `clientsMu`, and the three HTTP handlers           *)
(* addClientHandler, deleteClientHandler and getClientsHandler, each run   *)
(* by net/http in a goroutine of its own, one per inbound request; and the *)
(* handler of "/", which main defines over its local `welcome`.            *)
(***************************************************************************)
EXTENDS Integers, Sequences, FiniteSets, TLC

\* Number of request goroutines (one request each) serving store operations.
NumHandlers == 3
\* Number of request goroutines when requests of any method and shape arrive.
NumWireHandlers == 2
\* The client ids that request bodies and id query parameters carry.
IDs == {1, 2}

Handlers == 1..NumHandlers

WireHandlers == 1..NumWireHandlers

(***************************************************************************)
(* Go values.                                                              *)
(***************************************************************************)
\* time.Time as the instant and the zone offset (minutes) it carries.
ZeroTime == [unix |-> 0, offset |-> 0]

ZeroAddress == [City |-> "", Street |-> ""]

\* The zero value of Client, what `var newClient Client` holds before Decode.
ZeroClient ==
    [ID |-> 0, Name |-> "", Age |-> 0, RegisterDate |-> ZeroTime,
     FavCoffee |-> "", Address |-> ZeroAddress]

(***************************************************************************)
(* JSON values: a tagged union.  Object keys of a struct are field names;  *)
(* the keys of an encoded Go map[int]T are the decimal texts of the ints,  *)
(* held here as sequences of one-character strings.                        *)
(***************************************************************************)
JNum(n) == [t |-> "num", n |-> n]
JStr(s) == [t |-> "str", s |-> s]
JObj(f) == [t |-> "obj", f |-> f]
JMap(f) == [t |-> "map", f |-> f]
\* A body that is no JSON text at all.
JBad == [t |-> "bad"]
\* No body.
JNone == [t |-> "none"]

\* time.Time's UnmarshalJSON: RFC 3339 text to an instant and an offset.
ParseTime(s) ==
    CASE s = "2024-01-01T00:00:00Z"      -> [err |-> FALSE, v |-> [unix |-> 1704067200, offset |-> 0]]
      [] s = "2024-06-15T12:30:00+00:00" -> [err |-> FALSE, v |-> [unix |-> 1718454600, offset |-> 0]]
      [] s = "2024-06-15T12:30:00Z"      -> [err |-> FALSE, v |-> [unix |-> 1718454600, offset |-> 0]]
      [] s = "0001-01-01T00:00:00Z"      -> [err |-> FALSE, v |-> ZeroTime]
      [] OTHER                           -> [err |-> TRUE, v |-> ZeroTime]

\* time.Time's MarshalJSON: RFC 3339 text, offset zero written as Z.
FormatTime(tm) ==
    CASE tm = [unix |-> 1704067200, offset |-> 0] -> "2024-01-01T00:00:00Z"
      [] tm = [unix |-> 1718454600, offset |-> 0] -> "2024-06-15T12:30:00Z"
      [] OTHER                                    -> "0001-01-01T00:00:00Z"

\* A decoding that takes every key to be required.
DecodeFieldRequired(f, key, tag, zero) ==
    IF key \notin DOMAIN f \/ f[key].t # tag THEN [err |-> TRUE, v |-> zero]
    ELSE [err |-> FALSE, v |-> IF tag = "num" THEN f[key].n ELSE f[key].s]

\* One struct field of kind string or int: absent keeps the zero value,
\* a value of another JSON type is an UnmarshalTypeError.
DecodeField(f, key, tag, zero) ==
    IF key \notin DOMAIN f THEN [err |-> FALSE, v |-> zero]
    ELSE IF f[key].t # tag THEN [err |-> TRUE, v |-> zero]
    ELSE [err |-> FALSE, v |-> IF tag = "num" THEN f[key].n ELSE f[key].s]

DecodeTimeField(f, key) ==
    IF key \notin DOMAIN f THEN [err |-> FALSE, v |-> ZeroTime]
    ELSE IF f[key].t # "str" THEN [err |-> TRUE, v |-> ZeroTime]
    ELSE ParseTime(f[key].s)

DecodeAddress(f, key) ==
    IF key \notin DOMAIN f THEN [err |-> FALSE, v |-> ZeroAddress]
    ELSE IF f[key].t # "obj" THEN [err |-> TRUE, v |-> ZeroAddress]
    ELSE LET city   == DecodeField(f[key].f, "city", "str", "")
             street == DecodeField(f[key].f, "street", "str", "")
         IN  [err |-> city.err \/ street.err,
              v   |-> [City |-> city.v, Street |-> street.v]]

\* json.NewDecoder(r.Body).Decode(&newClient)
Decode(body) ==
    IF body.t # "obj" THEN [err |-> TRUE, c |-> ZeroClient]
    ELSE LET f    == body.f
             id   == DecodeField(f, "id", "num", 0)
             name == DecodeField(f, "name", "str", "")
             age  == DecodeField(f, "age", "num", 0)
             reg  == DecodeTimeField(f, "registerDate")
             fav  == DecodeField(f, "favCoffee", "str", "")
             addr == DecodeAddress(f, "address")
         IN  [err |-> id.err \/ name.err \/ age.err \/ reg.err \/ fav.err \/ addr.err,
              c   |-> [ID |-> id.v, Name |-> name.v, Age |-> age.v,
                       RegisterDate |-> reg.v, FavCoffee |-> fav.v,
                       Address |-> addr.v]]

\* An encoding that leaves the street out of the address.
EncodeClientNoStreet(c) ==
    JObj([id           |-> JNum(c.ID),
          name         |-> JStr(c.Name),
          age          |-> JNum(c.Age),
          registerDate |-> JStr(FormatTime(c.RegisterDate)),
          favCoffee    |-> JStr(c.FavCoffee),
          address      |-> JObj([city |-> JStr(c.Address.City)])])

\* json.NewEncoder(w).Encode(newClient): every field under its json tag.
EncodeClient(c) ==
    JObj([id           |-> JNum(c.ID),
          name         |-> JStr(c.Name),
          age          |-> JNum(c.Age),
          registerDate |-> JStr(FormatTime(c.RegisterDate)),
          favCoffee    |-> JStr(c.FavCoffee),
          address      |-> JObj([city   |-> JStr(c.Address.City),
                                 street |-> JStr(c.Address.Street)])])

(***************************************************************************)
(* strconv: decimal text as a sequence of one-character strings.           *)
(***************************************************************************)
DigitChars == <<"0", "1", "2", "3", "4", "5", "6", "7", "8", "9">>

IsDigit(ch) == \E d \in 1..10 : DigitChars[d] = ch

DigitVal(ch) == (CHOOSE d \in 1..10 : DigitChars[d] = ch) - 1

RECURSIVE DigitsVal(_)
DigitsVal(s) ==
    IF s = <<>> THEN 0
    ELSE 10 * DigitsVal(SubSeq(s, 1, Len(s) - 1)) + DigitVal(s[Len(s)])

\* A parse that reads the leading digits and ignores what follows them.
AtoiPrefix(s) ==
    LET n == IF s # <<>> /\ IsDigit(s[1]) THEN 1 ELSE 0
    IN  IF n = 0 THEN [err |-> TRUE, n |-> 0]
        ELSE [err |-> FALSE, n |-> DigitVal(s[1])]

\* strconv.Atoi: an optional sign, then one or more decimal digits.
Atoi(s) ==
    LET signed == s # <<>> /\ Head(s) \in {"+", "-"}
        digits == IF signed THEN Tail(s) ELSE s
    IN  IF digits = <<>> \/ \E i \in 1..Len(digits) : ~IsDigit(digits[i])
        THEN [err |-> TRUE, n |-> 0]
        ELSE [err |-> FALSE,
              n   |-> IF signed /\ Head(s) = "-" THEN 0 - DigitsVal(digits)
                      ELSE DigitsVal(digits)]

RECURSIVE NatText(_)
NatText(n) ==
    IF n < 10 THEN <<DigitChars[n + 1]>>
    ELSE NatText(n \div 10) \o <<DigitChars[(n % 10) + 1]>>

\* strconv.Itoa / the %d verb / the key of an encoded map[int]T.
Itoa(n) == IF n < 0 THEN <<"-">> \o NatText(0 - n) ELSE NatText(n)

\* json.NewEncoder(w).Encode(clients): an object keyed by the decimal ids.
EncodeClients(m) ==
    JMap([k \in {Itoa(i) : i \in DOMAIN m} |->
             EncodeClient(m[CHOOSE i \in DOMAIN m : Itoa(i) = k])])

(***************************************************************************)
(* Requests.                                                               *)
(***************************************************************************)
Methods == {"GET", "POST", "DELETE"}

\* Two clients' worth of field values; the second writes its zone as +00:00.
Anna ==
    [name |-> JStr("Anna"), age |-> JNum(30),
     registerDate |-> JStr("2024-01-01T00:00:00Z"), favCoffee |-> JStr("Latte"),
     address |-> JObj([city |-> JStr("Oslo"), street |-> JStr("Main St")])]

Bob ==
    [name |-> JStr("Bob"), age |-> JNum(41),
     registerDate |-> JStr("2024-06-15T12:30:00+00:00"), favCoffee |-> JStr("Espresso"),
     address |-> JObj([city |-> JStr("Rome"), street |-> JStr("Via Roma")])]

\* A JSON object with the payload's fields and the given value under "id".
WithId(pl, idv) ==
    JObj([k \in DOMAIN pl \cup {"id"} |-> IF k = "id" THEN idv ELSE pl[k]])

Request(path, m, body, idStr) ==
    [path |-> path, method |-> m, body |-> body, idStr |-> idStr]

NoRequest == Request("", "", JNone, <<>>)

\* Bodies that carry a whole client record with an integer id: one record
\* under every id, and a second, different record under id 1.
ClientBodies == {WithId(Anna, JNum(i)) : i \in IDs} \cup {WithId(Bob, JNum(1))}

\* Those, bodies without an id, a body whose id is 0, a body whose id is a
\* JSON string, and a body that is not JSON.
AddBodies ==
    ClientBodies \cup {JObj(Anna), JObj(Bob), WithId(Bob, JNum(0)),
                       WithId(Anna, JStr("1")), JBad}

\* The id query parameter, "" when the request has none.
IdStrings ==
    {Itoa(i) : i \in IDs \cup {0}}
        \cup {<<>>, <<"+", "1">>, <<"0", "2">>, <<"1", "a">>, <<"-">>}

\* The store operations Add, Delete and List as well-formed requests.
StoreRequests ==
    {Request("/addClient", "POST", b, <<>>) : b \in ClientBodies}
        \cup {Request("/deleteClient", "DELETE", JNone, Itoa(i)) : i \in IDs}
        \cup {Request("/getClients", "GET", JNone, <<>>)}

\* Add and List only, with as many ids as there are handlers, so that the
\* adds can all differ, and a second record under id 1, so that they can
\* collide.
AddListRequests ==
    {Request("/addClient", "POST", WithId(Anna, JNum(i)), <<>>) : i \in Handlers}
        \cup {Request("/addClient", "POST", WithId(Bob, JNum(1)), <<>>)}
        \cup {Request("/getClients", "GET", JNone, <<>>)}

\* One request of each store operation, all about id 1: they reach every
\* path through the critical sections (201, 409, 200, 404 and the List).
FairRequests ==
    {Request("/addClient", "POST", WithId(Anna, JNum(1)), <<>>),
     Request("/deleteClient", "DELETE", JNone, Itoa(1)),
     Request("/getClients", "GET", JNone, <<>>)}

\* Requests of any method; under a method the endpoint refuses, one
\* well-formed and one malformed request each.
WireRequests ==
    {Request("/addClient", "POST", b, <<>>) : b \in AddBodies}
        \cup {Request("/addClient", m, b, <<>>) :
                 m \in Methods \ {"POST"}, b \in {JBad, WithId(Anna, JNum(1))}}
        \cup {Request("/deleteClient", "DELETE", JNone, s) : s \in IdStrings}
        \cup {Request("/deleteClient", m, JNone, s) :
                 m \in Methods \ {"DELETE"}, s \in {<<>>, Itoa(1)}}
        \cup {Request("/getClients", m, JNone, <<>>) : m \in Methods}

\* The form of a request to "/": r.FormValue("name") is its name value, ""
\* when the form has none.
JForm(name) == [t |-> "form", name |-> name]

\* The names the forms carry.
PageNames == {"", "Al", "Bobby"}

\* Welcome{"Gost'", ...}: the name the page greets before any form names one.
Guest == "Gost"

\* time.Now().Format(time.Stamp) as main starts.
StartStamp == "Jan  1 00:00:00"

\* The length in bytes of the strings a Name can point to.
ByteLen(s) ==
    CASE s = ""      -> 0
      [] s = "Al"    -> 2
      [] s = "Gost"  -> 4
      [] s = "Bobby" -> 5

\* A Go string value: two words, the pointer to its bytes (held here as the
\* string whose bytes they are) and its length.
StringHeader(s) == [ptr |-> s, len |-> ByteLen(s)]

\* Requests to the welcome page.
PageRequests == {Request("/", "GET", JForm(n), <<>>) : n \in PageNames}

NoResponse == [status |-> 0, ctype |-> "", body |-> JNone]

\* The handlers' message texts (Russian in the source, transliterated here).
MsgMethod == "Nevernyj metod zaprosa"
MsgParse == "Oshibka parsinga tela zaprosa"
MsgExists == "Klient s takim ID uzhe sushchestvuet"
MsgBadID == "Nevernyj ili otsutstvuyushchij ID"
MsgNotFound == "Klient ne najden"
\* The format "... ID %d ..." with its argument printed in decimal.
MsgDeleted(n) == <<"Klient s ID ", Itoa(n), " uspeshno udalen">>

\* http.Error(w, msg, code)
HttpError(msg, code) ==
    [status |-> code, ctype |-> "text/plain; charset=utf-8", body |-> JStr(msg)]

(***************************************************************************)
(* State.                                                                  *)
(***************************************************************************)
VARIABLES
    clients,      \* the map[int]Client
    mu,           \* clientsMu: 0 when unlocked, else the handler holding it
    pc,           \* each handler's position
    req,          \* the request each handler serves
    newClient,    \* addClientHandler's local
    id,           \* deleteClientHandler's local
    resp,         \* what each handler has written to its ResponseWriter
    lockOrder,    \* history: the handlers in the order they acquired clientsMu
    snap,         \* history: the map as it stood at the latest Lock
    welcome       \* main's local `welcome`, captured by the handler of "/"

vars == <<clients, mu, pc, req, newClient, id, resp, lockOrder, snap, welcome>>

\* A handler whose response is complete.
Responded(p) == pc[p] \in {"unlock", "done"}

Init ==
    /\ clients = <<>>
    /\ mu = 0
    /\ pc = [p \in Handlers |-> "idle"]
    /\ req = [p \in Handlers |-> NoRequest]
    /\ newClient = [p \in Handlers |-> ZeroClient]
    /\ id = [p \in Handlers |-> 0]
    /\ resp = [p \in Handlers |-> NoResponse]
    /\ lockOrder = <<>>
    /\ snap = <<>>
    /\ welcome = [Name |-> StringHeader(Guest), Time |-> StartStamp]

\* net/http hands the request to a new goroutine running the handler; the
\* goroutines are numbered in the order their requests arrive.
Serve(p, r) ==
    /\ pc[p] = "idle"
    /\ \A q \in Handlers : q < p => pc[q] # "idle"
    /\ req' = [req EXCEPT ![p] = r]

\* A Lock that returns although another handler holds the mutex.
MutexFreeAlways == TRUE

\* Whether clientsMu.Lock() can return.
MutexFree == mu = 0

\* clientsMu.Lock()
Lock(p) ==
    /\ MutexFree
    /\ mu' = p
    /\ lockOrder' = Append(lockOrder, p)
    /\ snap' = clients

\* A return that leaves the mutex locked.
UnlockForgotten(p) ==
    /\ pc[p] = "unlock"
    /\ pc' = [pc EXCEPT ![p] = "done"]
    /\ UNCHANGED <<clients, mu, req, newClient, id, resp, lockOrder, snap, welcome>>

\* defer clientsMu.Unlock(), run as the handler returns.
Unlock(p) ==
    /\ pc[p] = "unlock"
    /\ mu' = 0
    /\ pc' = [pc EXCEPT ![p] = "done"]
    /\ UNCHANGED <<clients, req, newClient, id, resp, lockOrder, snap, welcome>>

\* An existence test that never finds the key.
ExistsNever(k) == FALSE

\* An existence test that finds every key.
ExistsAlways(k) == TRUE

\* _, exists := clients[k]
Exists(k) == k \in DOMAIN clients

\* An assignment that replaces the whole map by the one new entry.
MapInsertAlone(c) == [k \in {c.ID} |-> c]

\* An assignment made to a copy of the map: the map itself keeps its entries.
MapInsertLost(c) == clients

\* An insert under a key the store counts up itself, not under the record's id.
MapInsertNextKey(c) ==
    LET k == Cardinality(DOMAIN clients) + 1
    IN  [j \in DOMAIN clients \cup {k} |-> IF j = k THEN c ELSE clients[j]]

\* clients[newClient.ID] = newClient
MapInsert(c) == [k \in DOMAIN clients \cup {c.ID} |-> IF k = c.ID THEN c ELSE clients[k]]

\* A delete that leaves the entry in place.
MapDeleteKept(k) == clients

\* A delete that keeps the key and blanks its record.
MapDeleteTombstone(k) ==
    [j \in DOMAIN clients |-> IF j = k THEN ZeroClient ELSE clients[j]]

\* delete(clients, id)
MapDelete(k) == [j \in DOMAIN clients \ {k} |-> clients[j]]

Goto(p, label) == pc' = [pc EXCEPT ![p] = label]

Write(p, r) == resp' = [resp EXCEPT ![p] = r]

(***************************************************************************)
(* addClientHandler                                                        *)
(***************************************************************************)
\* The method check and the decoding of the body: no shared state is read.
AddBegin(p, r) ==
    LET m == r.method
        body == r.body
    IN  /\ r.path = "/addClient"
        /\ Serve(p, r)
        /\ IF m # "POST"
           THEN /\ Write(p, HttpError(MsgMethod, 405))
                /\ Goto(p, "done")
                /\ UNCHANGED newClient
           ELSE IF Decode(body).err
           THEN /\ Write(p, HttpError(MsgParse, 400))
                /\ Goto(p, "done")
                /\ UNCHANGED newClient
           ELSE /\ newClient' = [newClient EXCEPT ![p] = Decode(body).c]
                /\ Goto(p, "a_lock")
                /\ UNCHANGED resp
        /\ UNCHANGED <<clients, mu, id, lockOrder, snap, welcome>>

AddLock(p) ==
    /\ pc[p] = "a_lock"
    /\ Lock(p)
    /\ Goto(p, "a_check")
    /\ UNCHANGED <<clients, req, newClient, id, resp, welcome>>

\* if _, exists := clients[newClient.ID]; exists
AddCheck(p) ==
    /\ pc[p] = "a_check"
    /\ Goto(p, IF Exists(newClient[p].ID) THEN "a_conflict" ELSE "a_insert")
    /\ UNCHANGED <<clients, mu, req, newClient, id, resp, lockOrder, snap, welcome>>

AddConflict(p) ==
    /\ pc[p] = "a_conflict"
    /\ Write(p, HttpError(MsgExists, 409))
    /\ Goto(p, "unlock")
    /\ UNCHANGED <<clients, mu, req, newClient, id, lockOrder, snap, welcome>>

\* clients[newClient.ID] = newClient; w.WriteHeader(http.StatusCreated);
\* json.NewEncoder(w).Encode(newClient)
AddInsert(p) ==
    /\ pc[p] = "a_insert"
    /\ clients' = MapInsert(newClient[p])
    /\ Write(p, [resp[p] EXCEPT !.status = 201, !.body = EncodeClient(newClient[p])])
    /\ Goto(p, "unlock")
    /\ UNCHANGED <<mu, req, newClient, id, lockOrder, snap, welcome>>

(***************************************************************************)
(* deleteClientHandler                                                     *)
(***************************************************************************)
\* The method check and the parsing of the id parameter.
DeleteBegin(p, r) ==
    LET m == r.method
        idStr == r.idStr
    IN  /\ r.path = "/deleteClient"
        /\ Serve(p, r)
        /\ IF m # "DELETE"
           THEN /\ Write(p, HttpError(MsgMethod, 405))
                /\ Goto(p, "done")
                /\ UNCHANGED id
           ELSE IF Atoi(idStr).err \/ idStr = <<>>
           THEN /\ Write(p, HttpError(MsgBadID, 400))
                /\ Goto(p, "done")
                /\ UNCHANGED id
           ELSE /\ id' = [id EXCEPT ![p] = Atoi(idStr).n]
                /\ Goto(p, "d_lock")
                /\ UNCHANGED resp
        /\ UNCHANGED <<clients, mu, newClient, lockOrder, snap, welcome>>

DeleteLock(p) ==
    /\ pc[p] = "d_lock"
    /\ Lock(p)
    /\ Goto(p, "d_check")
    /\ UNCHANGED <<clients, req, newClient, id, resp, welcome>>

\* if _, exists := clients[id]; !exists
DeleteCheck(p) ==
    /\ pc[p] = "d_check"
    /\ Goto(p, IF ~Exists(id[p]) THEN "d_notfound" ELSE "d_delete")
    /\ UNCHANGED <<clients, mu, req, newClient, id, resp, lockOrder, snap, welcome>>

DeleteNotFound(p) ==
    /\ pc[p] = "d_notfound"
    /\ Write(p, HttpError(MsgNotFound, 404))
    /\ Goto(p, "unlock")
    /\ UNCHANGED <<clients, mu, req, newClient, id, lockOrder, snap, welcome>>

\* delete(clients, id); w.WriteHeader(http.StatusOK);
\* fmt.Fprintf(w, "... ID %d ...", id)
DeleteRemove(p) ==
    /\ pc[p] = "d_delete"
    /\ clients' = MapDelete(id[p])
    /\ Write(p, [resp[p] EXCEPT !.status = 200,
                                 !.body = [t |-> "text", s |-> MsgDeleted(id[p])]])
    /\ Goto(p, "unlock")
    /\ UNCHANGED <<mu, req, newClient, id, lockOrder, snap, welcome>>

(***************************************************************************)
(* getClientsHandler                                                       *)
(***************************************************************************)
GetBegin(p, r) ==
    LET m == r.method
    IN  /\ r.path = "/getClients"
        /\ Serve(p, r)
        /\ IF m # "GET"
           THEN /\ Write(p, HttpError(MsgMethod, 405))
                /\ Goto(p, "done")
           ELSE /\ Goto(p, "g_lock")
                /\ UNCHANGED resp
        /\ UNCHANGED <<clients, mu, newClient, id, lockOrder, snap, welcome>>

GetLock(p) ==
    /\ pc[p] = "g_lock"
    /\ Lock(p)
    /\ Goto(p, "g_encode")
    /\ UNCHANGED <<clients, req, newClient, id, resp, welcome>>

\* w.Header().Set("Content-Type", "application/json");
\* json.NewEncoder(w).Encode(clients): the first Write sends status 200.
GetEncode(p) ==
    /\ pc[p] = "g_encode"
    /\ Write(p, [status |-> 200, ctype |-> "application/json",
                 body |-> EncodeClients(clients)])
    /\ Goto(p, "unlock")
    /\ UNCHANGED <<clients, mu, req, newClient, id, lockOrder, snap, welcome>>

\* A step of a handler that has begun.
Step(p) ==
    \/ AddLock(p)
    \/ AddCheck(p)
    \/ AddConflict(p)
    \/ AddInsert(p)
    \/ DeleteLock(p)
    \/ DeleteCheck(p)
    \/ DeleteNotFound(p)
    \/ DeleteRemove(p)
    \/ GetLock(p)
    \/ GetEncode(p)
    \/ Unlock(p)

\* The mux routes an arriving request to its handler.
Route(p, r) ==
    \/ AddBegin(p, r)
    \/ DeleteBegin(p, r)
    \/ GetBegin(p, r)

\* Store operations only: every request is well-formed.
Next ==
    \E p \in Handlers :
        \/ \E r \in StoreRequests : Route(p, r)
        \/ Step(p)

Spec == Init /\ [][Next]_vars

\* The scheduler runs every goroutine that can take a step: a handler that
\* has begun does not stop for ever while its next statement can execute.
NextFair ==
    \E p \in Handlers :
        \/ \E r \in FairRequests : Route(p, r)
        \/ Step(p)

SpecFair == Init /\ [][NextFair]_vars /\ \A p \in Handlers : WF_vars(Step(p))

\* Adds and Lists only.
NextAddList ==
    \E p \in Handlers :
        \/ \E r \in AddListRequests : AddBegin(p, r) \/ GetBegin(p, r)
        \/ AddLock(p)
        \/ AddCheck(p)
        \/ AddConflict(p)
        \/ AddInsert(p)
        \/ GetLock(p)
        \/ GetEncode(p)
        \/ Unlock(p)

SpecAddList == Init /\ [][NextAddList]_vars

\* Requests of any method and shape.
NextWire ==
    \E p \in WireHandlers :
        \/ \E r \in WireRequests : Route(p, r)
        \/ Step(p)

SpecWire == Init /\ [][NextWire]_vars

(***************************************************************************)
(* Responses whose encoding fails.  Encode marshals the value and hands    *)
(* the text to the ResponseWriter in one Write; it returns an error when   *)
(* either fails, and both handlers drop that error.                        *)
(***************************************************************************)
\* What Encode returns and what it got written: the text, or nothing.
EncodeResults(v) == {[err |-> FALSE, body |-> v], [err |-> TRUE, body |-> JNone]}

\* A handler that answers an Encode error with http.Error(w, ..., 500).
AfterEncodeReported(r, e) ==
    IF e.err THEN HttpError("encode error", 500) ELSE [r EXCEPT !.body = e.body]

\* The response once `json.NewEncoder(w).Encode(v)` has returned e: the
\* handler does not look at the error, so the status stays what it was.
AfterEncode(r, e) == [r EXCEPT !.body = e.body]

\* Lines 113-115, with an Encode that may fail.
AddInsertIO(p) ==
    /\ pc[p] = "a_insert"
    /\ clients' = MapInsert(newClient[p])
    /\ \E e \in EncodeResults(EncodeClient(newClient[p])) :
          Write(p, AfterEncode([resp[p] EXCEPT !.status = 201], e))
    /\ Goto(p, "unlock")
    /\ UNCHANGED <<mu, req, newClient, id, lockOrder, snap, welcome>>

\* Lines 155-156, with an Encode that may fail: the server sends status 200
\* with the first Write, or as the handler returns when nothing was written.
GetEncodeIO(p) ==
    /\ pc[p] = "g_encode"
    /\ \E e \in EncodeResults(EncodeClients(clients)) :
          Write(p, AfterEncode([status |-> 200, ctype |-> "application/json",
                                body |-> JNone], e))
    /\ Goto(p, "unlock")
    /\ UNCHANGED <<clients, mu, req, newClient, id, lockOrder, snap, welcome>>

\* Store operations whose response bodies may fail to encode.
NextIO ==
    \E p \in WireHandlers :
        \/ \E r \in StoreRequests : Route(p, r)
        \/ AddLock(p)
        \/ AddCheck(p)
        \/ AddConflict(p)
        \/ AddInsertIO(p)
        \/ DeleteLock(p)
        \/ DeleteCheck(p)
        \/ DeleteNotFound(p)
        \/ DeleteRemove(p)
        \/ GetLock(p)
        \/ GetEncodeIO(p)
        \/ Unlock(p)

SpecIO == Init /\ [][NextIO]_vars

(***************************************************************************)
(* The handler of "/", a closure over main's local `welcome`.  It assigns  *)
(* welcome.Name and reads welcome with no mutex held.  A string is two     *)
(* words and its assignment two stores, in an order the compiler chooses:  *)
(* a goroutine that reads or writes between them finds one word of each    *)
(* value.                                                                  *)
(***************************************************************************)
\* name := r.FormValue("name"); name != ""
PageBegin(p, r) ==
    /\ r.path = "/"
    /\ Serve(p, r)
    /\ Goto(p, IF r.body.name # "" THEN "w_store" ELSE "w_render")
    /\ UNCHANGED <<clients, mu, newClient, id, resp, lockOrder, snap, welcome>>

\* welcome.Name = name: the first of the two stores.
PageStoreFirst(p) ==
    /\ pc[p] = "w_store"
    /\ \/ /\ welcome' = [welcome EXCEPT !.Name.ptr = req[p].body.name]
          /\ Goto(p, "w_store_len")
       \/ /\ welcome' = [welcome EXCEPT !.Name.len = ByteLen(req[p].body.name)]
          /\ Goto(p, "w_store_ptr")
    /\ UNCHANGED <<clients, mu, req, newClient, id, resp, lockOrder, snap>>

\* welcome.Name = name: the second store.
PageStoreSecond(p) ==
    /\ pc[p] \in {"w_store_len", "w_store_ptr"}
    /\ welcome' = IF pc[p] = "w_store_len"
                  THEN [welcome EXCEPT !.Name.len = ByteLen(req[p].body.name)]
                  ELSE [welcome EXCEPT !.Name.ptr = req[p].body.name]
    /\ Goto(p, "w_render")
    /\ UNCHANGED <<clients, mu, req, newClient, id, resp, lockOrder, snap>>

\* templates.ExecuteTemplate(w, "main.html", welcome): welcome is read, and
\* the page is written or, on an error, http.Error answers 500.
PageRender(p) ==
    /\ pc[p] = "w_render"
    /\ \E ok \in BOOLEAN :
          Write(p, IF ok
                   THEN [status |-> 200, ctype |-> "text/html; charset=utf-8",
                         body |-> [t |-> "page", welcome |-> welcome]]
                   ELSE HttpError("template error", 500))
    /\ Goto(p, "done")
    /\ UNCHANGED <<clients, mu, req, newClient, id, lockOrder, snap, welcome>>

\* Every endpoint: the welcome page and the store operations.
NextPages ==
    \E p \in WireHandlers :
        \/ \E r \in PageRequests : PageBegin(p, r)
        \/ PageStoreFirst(p)
        \/ PageStoreSecond(p)
        \/ PageRender(p)
        \/ \E r \in StoreRequests : Route(p, r)
        \/ Step(p)

SpecPages == Init /\ [][NextPages]_vars

(***************************************************************************)
(* Vocabulary of the properties.                                           *)
(***************************************************************************)
Begun(p) == pc[p] # "idle"

Status(p) == resp[p].status

\* A handler that got past the method check and the parsing of its input.
Admitted(p) == Begun(p) /\ Status(p) \notin {400, 405}

\* The store operation an admitted handler carries out.
IsAdd(p) == req[p].path = "/addClient" /\ Admitted(p)

IsDelete(p) == req[p].path = "/deleteClient" /\ Admitted(p)

IsList(p) == req[p].path = "/getClients" /\ Admitted(p)

\* The ids that the requests under way or served have named.
IdsNamed == {newClient[p].ID : p \in Handlers} \cup {id[p] : p \in Handlers}

\* The position at which a handler acquired clientsMu, 0 if it has not.
Pos(p) ==
    IF \E i \in 1..Len(lockOrder) : lockOrder[i] = p
    THEN CHOOSE i \in 1..Len(lockOrder) : lockOrder[i] = p
    ELSE 0

\* The handlers whose position is inside a critical section.
InCritical(p) ==
    pc[p] \in {"a_check", "a_conflict", "a_insert", "d_check", "d_notfound",
               "d_delete", "g_encode", "unlock"}

\* The positions at which the next step reads or writes the map.
AtAccess(p) == pc[p] \in {"a_check", "a_insert", "d_check", "d_delete", "g_encode"}

(***************************************************************************)
(* An atomic id -> Client map: each operation takes effect in one step.    *)
(***************************************************************************)
AtomicAddMap(m, c) ==
    IF c.ID \in DOMAIN m THEN m
    ELSE [k \in DOMAIN m \cup {c.ID} |-> IF k = c.ID THEN c ELSE m[k]]

AtomicAddResp(m, c) ==
    IF c.ID \in DOMAIN m THEN HttpError(MsgExists, 409)
    ELSE [status |-> 201, ctype |-> "", body |-> EncodeClient(c)]

AtomicDeleteMap(m, k) == [j \in DOMAIN m \ {k} |-> m[j]]

AtomicDeleteResp(m, k) ==
    IF k \notin DOMAIN m THEN HttpError(MsgNotFound, 404)
    ELSE [status |-> 200, ctype |-> "", body |-> [t |-> "text", s |-> MsgDeleted(k)]]

AtomicListResp(m) ==
    [status |-> 200, ctype |-> "application/json", body |-> EncodeClients(m)]

\* The map after the operation a request asks for.
AtomicMap(m, r) ==
    IF r.path = "/addClient" THEN AtomicAddMap(m, Decode(r.body).c)
    ELSE IF r.path = "/deleteClient" THEN AtomicDeleteMap(m, Atoi(r.idStr).n)
    ELSE m

\* The response to the operation a request asks for.
AtomicResp(m, r) ==
    IF r.path = "/addClient" THEN AtomicAddResp(m, Decode(r.body).c)
    ELSE IF r.path = "/deleteClient" THEN AtomicDeleteResp(m, Atoi(r.idStr).n)
    ELSE AtomicListResp(m)

\* The atomic maps before each operation of lockOrder and after the last,
\* from the empty map.
RECURSIVE AtomicMaps(_)
AtomicMaps(n) ==
    IF n = 0 THEN << <<>> >>
    ELSE LET before == AtomicMaps(n - 1)
         IN  Append(before, AtomicMap(before[n], req[lockOrder[n]]))

(***************************************************************************)
(* C1.  Of the addClient requests that carry one id, on a store that does  *)
(* not hold that id and from which nobody deletes it, at most one answers  *)
(* 201 in any state; once two or more of them have all responded, exactly  *)
(* one has answered 201, every other one 409, and the store holds under    *)
(* that id the record of the request that answered 201.                    *)
(***************************************************************************)
AddersOf(i) == {p \in Handlers : Begun(p) /\ IsAdd(p) /\ newClient[p].ID = i}

NobodyDeletes(i) == \A p \in Handlers : ~(Begun(p) /\ IsDelete(p) /\ id[p] = i)

C1_SameIdOneWinner ==
    \A i \in IdsNamed :
        LET A == AddersOf(i)
            W == {p \in A : Status(p) = 201}
        IN  NobodyDeletes(i) =>
              /\ Cardinality(W) <= 1
              /\ (Cardinality(A) >= 2 /\ \A p \in A : Responded(p)) =>
                    /\ Cardinality(W) = 1
                    /\ \A p \in A \ W : Status(p) = 409
                    /\ i \in DOMAIN clients
                    /\ \A p \in W : clients[i] = newClient[p]

\* Three requests with id 1 have responded; the one that arrived last won,
\* and its record differs from a loser's.
C1_Witness ==
    /\ Cardinality(AddersOf(1)) = NumHandlers
    /\ \A p \in Handlers : pc[p] = "done"
    /\ Status(NumHandlers) = 201
    /\ \E p \in Handlers : Status(p) = 409 /\ newClient[p] # newClient[NumHandlers]

(***************************************************************************)
(* C2.  Linearizability.  The order in which the handlers acquired the     *)
(* mutex is a sequential order of the operations in which every response   *)
(* is the one an atomic map gives, the map itself is the atomic map        *)
(* whenever no handler is inside its critical section, and the order       *)
(* respects real time: a handler that had responded when another began     *)
(* had acquired the mutex, and the one beginning had not.                  *)
(***************************************************************************)
C2_Sequential ==
    LET maps == AtomicMaps(Len(lockOrder))
    IN  /\ \A n \in 1..Len(lockOrder) :
              /\ Admitted(lockOrder[n])
              /\ \A k \in 1..Len(lockOrder) : lockOrder[n] = lockOrder[k] => n = k
              /\ Responded(lockOrder[n]) =>
                    resp[lockOrder[n]] = AtomicResp(maps[n], req[lockOrder[n]])
        /\ (\A p \in Handlers : ~InCritical(p)) => clients = maps[Len(lockOrder) + 1]

C2_RealTime ==
    \A p \in Handlers :
        (pc[p] = "idle" /\ pc'[p] # "idle") =>
            /\ Pos(p) = 0
            /\ \A q \in Handlers : Responded(q) => Pos(q) # 0

C2_Linearizable == [](C2_Sequential) /\ [][C2_RealTime]_vars

\* Three operations have all responded in an order of acquisition that is
\* not their order of arrival, and the last of them saw the others' effects.
C2_Witness ==
    /\ \A p \in Handlers : pc[p] = "done"
    /\ lockOrder = <<2, 1, 3>>
    /\ IsAdd(2) /\ Status(2) = 201
    /\ IsAdd(1) /\ Status(1) = 409
    /\ IsDelete(3) /\ Status(3) = 200

(***************************************************************************)
(* C3.  Mutual exclusion: at most one handler is between Lock and Unlock,  *)
(* that handler is the one recorded as holding clientsMu, and every        *)
(* handler about to read or write the map holds clientsMu.                 *)
(***************************************************************************)
C3_MutualExclusion ==
    /\ \A p, q \in Handlers : (InCritical(p) /\ InCritical(q)) => p = q
    /\ \A p \in Handlers : InCritical(p) => mu = p
    /\ \A p \in Handlers : AtAccess(p) => mu = p
    /\ mu # 0 => InCritical(mu)

\* One handler is about to insert while two others wait in Lock.
C3_Witness ==
    \E p \in Handlers :
        /\ pc[p] = "a_insert"
        /\ \A q \in Handlers \ {p} : pc[q] \in {"a_lock", "d_lock", "g_lock"}

(***************************************************************************)
(* C4.  An addClient whose id is in the store when it acquires the mutex   *)
(* never reaches the insert, leaves the map as it found it for as long as  *)
(* it holds the mutex, and answers 409.                                    *)
(***************************************************************************)
C4_DuplicateRejected ==
    \A p \in Handlers :
        (IsAdd(p) /\ InCritical(p) /\ mu = p /\ newClient[p].ID \in DOMAIN snap) =>
            /\ clients = snap
            /\ pc[p] # "a_insert"
            /\ pc[p] = "unlock" => Status(p) = 409

\* A request has answered 409 and is about to unlock; the record it was
\* refused differs from the stored one, which is still the stored one.
C4_Witness ==
    \E p \in Handlers :
        /\ IsAdd(p) /\ pc[p] = "unlock" /\ Status(p) = 409
        /\ newClient[p].ID \in DOMAIN clients
        /\ clients[newClient[p].ID] # newClient[p]
        /\ clients[newClient[p].ID].Name # newClient[p].Name

(***************************************************************************)
(* C5.  A deleteClient whose id is not in the store when it acquires the   *)
(* mutex never reaches the delete, leaves the map as it found it for as    *)
(* long as it holds the mutex, and answers 404.                            *)
(***************************************************************************)
C5_AbsentNotFound ==
    \A p \in Handlers :
        (IsDelete(p) /\ InCritical(p) /\ mu = p /\ id[p] \notin DOMAIN snap) =>
            /\ clients = snap
            /\ pc[p] # "d_delete"
            /\ pc[p] = "unlock" => Status(p) = 404

\* A delete of an absent id has answered 404 on a store that holds another
\* id, after a delete had answered 404 on the empty store.
C5_Witness ==
    \E p, q \in Handlers :
        /\ IsDelete(p) /\ pc[p] = "unlock" /\ Status(p) = 404
        /\ clients # <<>> /\ id[p] \notin DOMAIN clients
        /\ IsDelete(q) /\ Pos(q) = 1 /\ Status(q) = 404

(***************************************************************************)
(* C6.  After a delete of an id has answered 200, a handler that acquires  *)
(* the mutex later, with no successful add of that id in between, does     *)
(* not list the id if it is a List and answers 404 if it is a delete of    *)
(* the id; and the delete removes that one entry and no other.             *)
(***************************************************************************)
NoAddBetween(i, d, x) ==
    \A n \in (Pos(d) + 1)..(Pos(x) - 1) :
        ~(IsAdd(lockOrder[n]) /\ newClient[lockOrder[n]].ID = i /\ Status(lockOrder[n]) = 201)

C6_DeletedStaysDeleted ==
    \A d \in Handlers :
        (IsDelete(d) /\ Status(d) = 200) =>
            /\ \E a \in Handlers :
                  IsAdd(a) /\ newClient[a].ID = id[d] /\ Status(a) = 201 /\ Pos(a) < Pos(d)
            /\ (mu = d /\ pc[d] = "unlock") =>
                  /\ DOMAIN clients = DOMAIN snap \ {id[d]}
                  /\ \A k \in DOMAIN clients : clients[k] = snap[k]
            /\ \A x \in Handlers :
                  (Responded(x) /\ Pos(d) < Pos(x) /\ NoAddBetween(id[d], d, x)) =>
                      /\ IsList(x) => Itoa(id[d]) \notin DOMAIN resp[x].body.f
                      /\ (IsDelete(x) /\ id[x] = id[d]) => Status(x) = 404

\* Add, Delete and a second Delete of the same id have responded in turn.
C6_Witness ==
    \E a, d, x \in Handlers :
        /\ IsAdd(a) /\ Status(a) = 201
        /\ IsDelete(d) /\ Status(d) = 200 /\ id[d] = newClient[a].ID
        /\ IsDelete(x) /\ Status(x) = 404 /\ id[x] = id[d]
        /\ Pos(a) < Pos(d) /\ Pos(d) < Pos(x)
        /\ pc[x] = "done"

(***************************************************************************)
(* C7.  The key set of the store is the set of ids whose latest successful *)
(* operation, in the order of the critical sections, is an add; and when   *)
(* the first two operations on the empty store are adds with different     *)
(* ids, both answer 201 and a List that comes third returns exactly the    *)
(* two records, each under its id.                                         *)
(***************************************************************************)
\* The successful operations on id i, as positions in lockOrder.
Successes(i) ==
    {n \in 1..Len(lockOrder) :
        LET p == lockOrder[n]
        IN  \/ IsAdd(p) /\ newClient[p].ID = i /\ Status(p) = 201
            \/ IsDelete(p) /\ id[p] = i /\ Status(p) = 200}

LiveIds ==
    {i \in IdsNamed :
        /\ Successes(i) # {}
        /\ IsAdd(lockOrder[CHOOSE n \in Successes(i) : \A k \in Successes(i) : k <= n])}

C7_ExactlyTheAdded ==
    /\ DOMAIN clients = LiveIds
    /\ Len(lockOrder) >= 2 =>
          LET a1 == lockOrder[1]
              a2 == lockOrder[2]
          IN  (IsAdd(a1) /\ IsAdd(a2) /\ newClient[a1].ID # newClient[a2].ID) =>
                  /\ Responded(a1) => Status(a1) = 201
                  /\ Responded(a2) => Status(a2) = 201
                  /\ (Len(lockOrder) >= 3 /\ IsList(lockOrder[3]) /\ Responded(lockOrder[3])) =>
                        LET body == resp[lockOrder[3]].body
                        IN  /\ Status(lockOrder[3]) = 200
                            /\ body.t = "map"
                            /\ DOMAIN body.f = {Itoa(newClient[a1].ID), Itoa(newClient[a2].ID)}
                            /\ Decode(body.f[Itoa(newClient[a1].ID)]).c = newClient[a1]
                            /\ Decode(body.f[Itoa(newClient[a2].ID)]).c = newClient[a2]

\* Two adds with different ids, then a List, have all responded.
C7_Witness ==
    /\ Len(lockOrder) = 3
    /\ IsAdd(lockOrder[1]) /\ IsAdd(lockOrder[2]) /\ IsList(lockOrder[3])
    /\ newClient[lockOrder[1]].ID # newClient[lockOrder[2]].ID
    /\ pc[lockOrder[3]] = "done"
    /\ Cardinality(DOMAIN resp[lockOrder[3]].body.f) = 2

(***************************************************************************)
(* C8.  When the addClient requests carry pairwise different ids and no    *)
(* request deletes, every add that has responded has answered 201 and its  *)
(* record is in the store; once all have responded the store holds as many *)
(* entries as there were adds, and a List that acquires the mutex after    *)
(* all of them returns one entry for each.                                 *)
(***************************************************************************)
Adders == {p \in Handlers : Begun(p) /\ IsAdd(p)}

C8_NoInsertLost ==
    ((\A p, q \in Adders : newClient[p].ID = newClient[q].ID => p = q)
        /\ \A p \in Handlers : ~(Begun(p) /\ IsDelete(p))) =>
        /\ \A p \in Adders :
              Responded(p) =>
                  /\ Status(p) = 201
                  /\ newClient[p].ID \in DOMAIN clients
                  /\ clients[newClient[p].ID] = newClient[p]
        /\ (\A p \in Adders : Responded(p)) =>
              /\ Cardinality(DOMAIN clients) = Cardinality(Adders)
              /\ \A g \in Handlers :
                    (IsList(g) /\ Responded(g) /\ \A p \in Adders : Pos(p) < Pos(g)) =>
                        DOMAIN resp[g].body.f = {Itoa(newClient[p].ID) : p \in Adders}

\* As many adds as there are handlers, with pairwise different ids, have
\* all responded, having acquired the mutex in the reverse of the order in
\* which they arrived: they all overlapped.
C8_Witness ==
    /\ \A p \in Handlers : IsAdd(p) /\ pc[p] = "done" /\ Pos(p) = NumHandlers + 1 - p
    /\ \A p, q \in Handlers : newClient[p].ID = newClient[q].ID => p = q
    /\ Cardinality(DOMAIN clients) = NumHandlers

(***************************************************************************)
(* C9.  Round trip.  An add that answers 201 answers with a body that      *)
(* decodes to its record, field by field; and a List that acquires the     *)
(* mutex after it, with no successful delete of the id in between, holds   *)
(* under the id's decimal text an entry that decodes to the same record.   *)
(***************************************************************************)
SameFields(c, d) ==
    /\ c.ID = d.ID
    /\ c.Name = d.Name
    /\ c.Age = d.Age
    /\ c.RegisterDate = d.RegisterDate
    /\ c.FavCoffee = d.FavCoffee
    /\ c.Address.City = d.Address.City
    /\ c.Address.Street = d.Address.Street

NoDeleteBetween(i, a, g) ==
    \A n \in (Pos(a) + 1)..(Pos(g) - 1) :
        ~(IsDelete(lockOrder[n]) /\ id[lockOrder[n]] = i /\ Status(lockOrder[n]) = 200)

EndpointMethod(path) ==
    CASE path = "/addClient"    -> "POST"
      [] path = "/deleteClient" -> "DELETE"
      [] path = "/getClients"   -> "GET"

WrongMethod(r) == r.method # EndpointMethod(r.path)

\* Not a JSON object, or an object whose id is not a number.
UnparseableBody(b) == b.t # "obj" \/ ("id" \in DOMAIN b.f /\ b.f["id"].t # "num")

\* Decimal digits, at least one, after at most one sign.
IntegerText(s) ==
    \E first \in 1..2 :
        /\ first <= Len(s)
        /\ first = 2 => s[1] \in {"+", "-"}
        /\ \A i \in first..Len(s) : s[i] \in {"0", "1", "2", "3", "4", "5", "6", "7", "8", "9"}

Malformed(r) ==
    \/ r.path = "/addClient" /\ UnparseableBody(r.body)
    \/ r.path = "/deleteClient" /\ (r.idStr = <<>> \/ ~IntegerText(r.idStr))

Refused(p, code) == Status(p) = code /\ pc[p] = "done" /\ Pos(p) = 0

C10_Refusals ==
    \A p \in Handlers :
        Begun(p) =>
            /\ WrongMethod(req[p]) => Refused(p, 405)
            /\ (~WrongMethod(req[p]) /\ Malformed(req[p])) => Refused(p, 400)

C10_RefusalStep ==
    \A p \in Handlers :
        (pc[p] = "idle" /\ pc'[p] # "idle" /\ (WrongMethod(req'[p]) \/ Malformed(req'[p]))) =>
            /\ clients' = clients
            /\ mu' = mu
            /\ lockOrder' = lockOrder

C10_MethodThenShape == [](C10_Refusals) /\ [][C10_RefusalStep]_vars

\* While another handler holds the mutex on a store with an entry, a GET
\* to /addClient with a body that is no JSON has answered 405.
C10_Witness ==
    \E p \in Handlers :
        /\ req[p] = Request("/addClient", "GET", JBad, <<>>)
        /\ Status(p) = 405
        /\ mu # 0 /\ mu # p
        /\ clients # <<>>

(***************************************************************************)
(* C11.  A GET to /getClients answers 200 and nothing else; from the       *)
(* moment it acquires the mutex until it releases it the map is the map    *)
(* it found, and the body it has written by then is the encoding of that   *)
(* one map; none of its steps changes the map, and its response, once      *)
(* written, is never written again.                                        *)
(***************************************************************************)
C11_ListStates ==
    \A g \in Handlers :
        IsList(g) =>
            /\ Status(g) \in {0, 200}
            /\ Responded(g) => (Status(g) = 200 /\ resp[g].body.t = "map" /\ Pos(g) # 0)
            /\ InCritical(g) => (mu = g /\ clients = snap)
            /\ pc[g] = "unlock" => resp[g].body = EncodeClients(snap)

C11_ListStep ==
    \A g \in Handlers :
        /\ (req'[g].path = "/getClients" /\ pc'[g] # pc[g]) => clients' = clients
        /\ (IsList(g) /\ Responded(g)) => resp'[g] = resp[g]

Writing(p) ==
    pc[p] \in {"a_conflict", "a_insert", "d_notfound", "d_delete", "g_encode"}

Waiting(p) == pc[p] \in {"a_lock", "d_lock", "g_lock"}

C12_NoWriteUnderLock ==
    \A p \in Handlers :
        Writing(p) =>
            /\ mu # p
            /\ \A q \in Handlers : Waiting(q) => MutexFree

(***************************************************************************)
(* C13, as stated.  A handler of addClient or getClients whose Encode      *)
(* failed has answered 500.                                                *)
(***************************************************************************)
\* A response is complete and no body was written: Encode returned an error
\* (every other response of the handlers has a body).
EncodeFailed(p) == Responded(p) /\ resp[p].body = JNone

C13_FailureReported ==
    \A p \in Handlers : EncodeFailed(p) => Status(p) = 500

(***************************************************************************)
(* C13, amended.  A failure to encode the response body is not reported:   *)
(* no handler ever answers 500; an addClient whose Encode failed has       *)
(* answered 201 and its record is in the store when it releases the        *)
(* mutex, and a getClients whose Encode failed has answered 200.           *)
(***************************************************************************)
C13_FailureIgnored ==
    \A p \in Handlers :
        /\ Status(p) # 500
        /\ (EncodeFailed(p) /\ IsAdd(p)) =>
              /\ Status(p) = 201
              /\ mu = p => (newClient[p].ID \in DOMAIN clients
                              /\ clients[newClient[p].ID] = newClient[p])
        /\ (EncodeFailed(p) /\ IsList(p)) =>
              (Status(p) = 200 /\ resp[p].ctype = "application/json")

\* An add whose Encode failed has answered 201, and a List after it, whose
\* Encode failed too, has answered 200 on a store that holds the record.
C13_Witness ==
    \E a, g \in Handlers :
        /\ IsAdd(a) /\ pc[a] = "done" /\ EncodeFailed(a) /\ Status(a) = 201
        /\ IsList(g) /\ pc[g] = "done" /\ EncodeFailed(g) /\ Status(g) = 200
        /\ Pos(a) < Pos(g)
        /\ clients[newClient[a].ID] = newClient[a]

(***************************************************************************)
(* C14.  No step changes the record under an id that is in the map before  *)
(* and after the step.  The record under an id is the record of the latest *)
(* add of that id that answered 201, and between two adds of one id that   *)
(* answered 201 a delete of that id answered 200.                          *)
(***************************************************************************)
C14_StepKeeps ==
    \A k \in DOMAIN clients \cap DOMAIN clients' : clients'[k] = clients[k]

SuccessfulAdd(n, i) ==
    IsAdd(lockOrder[n]) /\ newClient[lockOrder[n]].ID = i /\ Status(lockOrder[n]) = 201

SuccessfulDelete(n, i) ==
    IsDelete(lockOrder[n]) /\ id[lockOrder[n]] = i /\ Status(lockOrder[n]) = 200

C14_Provenance ==
    \A i \in IdsNamed :
        /\ \A n, m \in 1..Len(lockOrder) :
              (n < m /\ SuccessfulAdd(n, i) /\ SuccessfulAdd(m, i)) =>
                  \E d \in (n + 1)..(m - 1) : SuccessfulDelete(d, i)
        /\ i \in DOMAIN clients =>
              \E n \in 1..Len(lockOrder) :
                  /\ SuccessfulAdd(n, i)
                  /\ clients[i] = newClient[lockOrder[n]]
                  /\ \A m \in (n + 1)..Len(lockOrder) : ~SuccessfulAdd(m, i)

C14_NeverInPlace == [](C14_Provenance) /\ [][C14_StepKeeps]_vars

\* The record under id 1 is no longer the one first stored there: the add
\* that replaced it, after a delete, is about to release the mutex.
C14_Witness ==
    \E a, d, b \in Handlers :
        /\ IsAdd(a) /\ Status(a) = 201 /\ newClient[a].ID = 1
        /\ IsDelete(d) /\ Status(d) = 200 /\ id[d] = 1
        /\ IsAdd(b) /\ pc[b] = "unlock" /\ mu = b /\ newClient[b].ID = 1
        /\ 1 \in DOMAIN clients
        /\ clients[1] = newClient[b]
        /\ clients[1] # newClient[a]

(***************************************************************************)
(* C15.  Every record in the map is filed under its own id, so two         *)
(* different keys never hold records with one id.                          *)
(***************************************************************************)
C15_FiledUnderOwnId ==
    /\ \A k \in DOMAIN clients : clients[k].ID = k
    /\ \A k, j \in DOMAIN clients : clients[k].ID = clients[j].ID => k = j

\* The map holds a record under every id of IDs.
C15_Witness ==
    /\ DOMAIN clients = IDs
    /\ \A k \in IDs : clients[k].ID = k

(***************************************************************************)
(* C16.  The map is the only state that handlers share and write: a step   *)
(* that changes state other than the handler's own is a step of an add or  *)
(* a delete, and no two handlers are at once about to access one variable, *)
(* one of them to write it.                                                *)
(***************************************************************************)
\* The variable a handler's next statement writes, or reads, if any.
WritesNext(p) ==
    CASE pc[p] \in {"a_insert", "d_delete"}                    -> {"clients"}
      [] pc[p] \in {"w_store", "w_store_len", "w_store_ptr"}   -> {"welcome"}
      [] OTHER                                                 -> {}

ReadsNext(p) ==
    CASE pc[p] \in {"a_check", "d_check", "g_encode"}          -> {"clients"}
      [] pc[p] = "w_render"                                    -> {"welcome"}
      [] OTHER                                                 -> {}

C16_OnlyTheMapIsShared ==
    /\ \A p \in Handlers :
          WritesNext(p) # {} => (IsAdd(p) \/ IsDelete(p))
    /\ \A p, q \in Handlers :
          p # q => WritesNext(p) \cap (WritesNext(q) \cup ReadsNext(q)) = {}

(***************************************************************************)
(* C17.  A handler that has returned does not hold clientsMu, whatever it  *)
(* answered; and when every handler that can take a step eventually takes  *)
(* one, a handler waiting in Lock eventually holds the mutex and a handler *)
(* that has begun eventually returns.                                      *)
(***************************************************************************)
C17_Released ==
    /\ \A p \in Handlers : pc[p] = "done" => mu # p
    /\ (\A p \in Handlers : pc[p] \in {"idle", "done"}) => mu = 0

C17_Live ==
    \A p \in Handlers :
        /\ Waiting(p) ~> (mu = p)
        /\ Begun(p) ~> (pc[p] = "done")

C17_AlwaysReleased == [](C17_Released) /\ C17_Live

\* Three handlers have returned, one on each path (201, 409 and 404), the
\* mutex is free, and the one that arrived first acquired it last.
C17_Witness ==
    /\ \A p \in Handlers : pc[p] = "done"
    /\ mu = 0
    /\ {Status(p) : p \in Handlers} = {201, 409, 404}
    /\ Pos(1) = NumHandlers

(***************************************************************************)
(* C18.  An add of an id that acquires the mutex after a delete of that id *)
(* answered 200, with no add of the id answering 201 in between, is not    *)
(* refused: it answers 201, and when it releases the mutex the store holds *)
(* under the id exactly the record of its request.                         *)
(***************************************************************************)
C18_IdReusable ==
    \A d, a \in Handlers :
        (IsDelete(d) /\ Status(d) = 200 /\ IsAdd(a) /\ newClient[a].ID = id[d]
            /\ Pos(d) < Pos(a) /\ NoAddBetween(id[d], d, a)) =>
            /\ pc[a] # "a_conflict"
            /\ Responded(a) => Status(a) = 201
            /\ (pc[a] = "unlock" /\ mu = a) =>
                  /\ id[d] \in DOMAIN clients
                  /\ clients[id[d]] = Decode(req[a].body).c

\* Anna was stored under id 1 and deleted; Bob has been added under id 1,
\* and the stored record shares no field but the id with Anna's.
C18_Witness ==
    \E a, d, b \in Handlers :
        /\ \A p \in Handlers : pc[p] = "done"
        /\ Pos(a) = 1 /\ Pos(d) = 2 /\ Pos(b) = 3
        /\ IsAdd(a) /\ Status(a) = 201 /\ newClient[a].Name = "Anna"
        /\ IsDelete(d) /\ Status(d) = 200 /\ id[d] = newClient[a].ID
        /\ IsAdd(b) /\ Status(b) = 201 /\ newClient[b].ID = id[d]
        /\ clients[id[d]].Name = "Bob"
        /\ clients[id[d]].Age # newClient[a].Age
        /\ clients[id[d]].RegisterDate # newClient[a].RegisterDate
        /\ clients[id[d]].FavCoffee # newClient[a].FavCoffee
        /\ clients[id[d]].Address.City # newClient[a].Address.City
        /\ clients[id[d]].Address.Street # newClient[a].Address.Street

(***************************************************************************)
(* C19.  A POST to /addClient whose body is a JSON object without an "id"  *)
(* key is not answered 400: it is an add of id 0.  If the store has no key *)
(* 0 when it acquires the mutex it answers 201 and the store holds its     *)
(* record under key 0; and an add of id 0, with or without the key, that   *)
(* finds key 0 in the store answers 409 and leaves the store as it was.    *)
(***************************************************************************)
IdLess(r) ==
    /\ r.path = "/addClient"
    /\ r.method = "POST"
    /\ r.body.t = "obj"
    /\ "id" \notin DOMAIN r.body.f

C19_IdLessIsZero ==
    \A p \in Handlers :
        /\ (Begun(p) /\ IdLess(req[p])) =>
              /\ Status(p) # 400
              /\ IsAdd(p)
              /\ newClient[p].ID = 0
              /\ (mu = p /\ 0 \notin DOMAIN snap) =>
                    /\ pc[p] # "a_conflict"
                    /\ pc[p] = "unlock" =>
                          /\ Status(p) = 201
                          /\ 0 \in DOMAIN clients
                          /\ clients[0] = newClient[p]
        /\ (IsAdd(p) /\ newClient[p].ID = 0 /\ mu = p /\ 0 \in DOMAIN snap) =>
              /\ pc[p] # "a_insert"
              /\ clients = snap
              /\ pc[p] = "unlock" => Status(p) = 409

\* A body without an id has answered 201 and its record is under key 0; a
\* body of another client whose id is 0 has then answered 409.
C19_Witness ==
    \E a, b \in Handlers :
        /\ IdLess(req[a]) /\ pc[a] = "done" /\ Status(a) = 201
        /\ req[b].body = WithId(Bob, JNum(0)) /\ pc[b] = "done" /\ Status(b) = 409
        /\ Pos(a) < Pos(b)
        /\ DOMAIN clients = {0}
        /\ clients[0] = newClient[a]

====
